---- MODULE Spec2Model ----
(***************************************************************************)
(* Model of the train-to-bus transfer recommender:                        *)
(*   src/api/departures.js  (serverless `handler`)                        *)
(*   src/server.mjs         (local `handleAPI`)                           *)
(*                                                                         *)
(* Instants are JavaScript time values (milliseconds since the epoch).    *)
(* An ISO-8601 string of a feed or of a response is named by the instant  *)
(* it denotes; the values that are not instants (null, undefined, an      *)
(* unparseable string, the NaN time value of an Invalid Date) are the     *)
(* negative numbers below.  The wall-clock fields of a response           *)
(* (timestamp, totalMinutes) take no part in any decision and are left    *)
(* out of the itinerary records; only their keys are kept.                *)
(***************************************************************************)
EXTENDS Integers, Sequences, FiniteSets, TLC

VARIABLES feeds, pc, impl, req, options, response, call

vars == <<feeds, pc, impl, req, options, response, call>>

----------------------------------------------------------------------------
(* Bounds of the model *)

\* number of three-minute ticks of the time grid the feeds draw from
MaxTick == 2
\* total number of upstream events (records delivered, feeds lost) per request
MaxRecords == 3
\* longest bus list handed to the transfer matcher on its own
MaxLen == 3
\* largest transfer buffer, in ticks, handed to the transfer matcher on its own
MaxBuffer == 1

----------------------------------------------------------------------------
(* JavaScript values *)

\* the time value of an Invalid Date
NaN == -1
\* JSON null
NULL == -2
\* a missing property
UNDEFINED == -3
\* a non-empty string that Date cannot parse
BAD == -4

MsPerMinute == 60 * 1000
Tick == 3 * MsPerMinute

IsInstant(v) == v >= 0

\* a || b on raw timestamp fields: null and undefined are falsy, every
\* non-empty string (parseable or not) is truthy
Or(a, b) == IF a \in {NULL, UNDEFINED} THEN b ELSE a

\* new Date(v): null converts to the number 0 (the epoch), undefined and an
\* unparseable string give an Invalid Date, an ISO string gives its instant
NewDate(v) ==
    CASE v = NULL -> 0
      [] v = UNDEFINED -> NaN
      [] v = BAD -> NaN
      [] OTHER -> v

\* new Date(d.getTime() + mins * 60 * 1000)
AddMinutes(d, mins) == IF d = NaN THEN NaN ELSE d + mins * 60 * 1000

\* a >= b on Date objects: false as soon as one side is NaN
DateGE(a, b) == a # NaN /\ b # NaN /\ a >= b

\* the comparator (a, b) => a - b on Date objects says "a before b";
\* a NaN difference counts as +0
DateLess(a, b) == a # NaN /\ b # NaN /\ a < b

\* Date.prototype.toISOString throws RangeError on an Invalid Date
ToISOStringThrows(d) == d = NaN
ToISOString(d) == d

----------------------------------------------------------------------------
(* Static configuration *)

BUS_TRAVEL_TIMES(route) ==
    CASE route = "733" -> 17
      [] route = "703" -> 13
      [] route = "737" -> 15
      [] route = "742" -> 12

TRAIN_TRAVEL_FROM_MT_WAVERLEY(station) ==
    CASE station = "mountWaverley" -> 0
      [] station = "syndal" -> 3
      [] station = "glenWaverley" -> 6

MIN_TRANSFER_TIME == 3

\* server.mjs keeps its own copies of the tables
BUS_TRAVEL_TIMES_local(route) ==
    CASE route = "733" -> 17
      [] route = "703" -> 13
      [] route = "737" -> 15
      [] route = "742" -> 12

TRAIN_TRAVEL(station) ==
    CASE station = "mountWaverley" -> 0
      [] station = "syndal" -> 3
      [] station = "glenWaverley" -> 6

MIN_TRANSFER == 3

GLEN_WAVERLEY_DIRECTION == 6

----------------------------------------------------------------------------
(* Array helpers *)

RECURSIVE InsertByTime(_, _)
\* sorted and x are <<time, element>> pairs; x goes before the first pair that
\* the comparator puts strictly after it, so elements that compare equal keep
\* their order
InsertByTime(sorted, x) ==
    IF sorted = <<>> THEN <<x>>
    ELSE IF DateLess(x[1], Head(sorted)[1])
         THEN <<x>> \o sorted
         ELSE <<Head(sorted)>> \o InsertByTime(Tail(sorted), x)

RECURSIVE SortFrom(_, _)
SortFrom(done, rest) ==
    IF rest = <<>> THEN done
    ELSE SortFrom(InsertByTime(done, Head(rest)), Tail(rest))

\* Array.prototype.sort with a consistent comparator on a time: ascending and
\* stable (ECMAScript 2019).  keyed holds <<time, element>> pairs, the time
\* being what the comparator subtracts; the result holds the elements.
StableSortByTime(keyed) ==
    LET sorted == SortFrom(<<>>, keyed)
    IN [i \in 1..Len(keyed) |-> sorted[i][2]]

ArrayOrders(seq) ==
    LET n == Len(seq)
        bij == {p \in [1..n -> 1..n] : \A i, j \in 1..n : p[i] = p[j] => i = j}
    IN {[i \in 1..n |-> seq[p[i]]] : p \in bij}

\* (a, b) => a - b is a consistent comparator on the list unless an Invalid
\* Date (equal to everything) sits beside two different instants
ConsistentComparator(keyed) ==
    LET ts == {keyed[i][1] : i \in 1..Len(keyed)}
    IN NaN \notin ts \/ Cardinality(ts \ {NaN}) <= 1

\* every order Array.prototype.sort may leave: with an inconsistent comparator
\* the order is implementation-defined
SortOutcomes(keyed) ==
    IF ConsistentComparator(keyed)
    THEN {StableSortByTime(keyed)}
    ELSE ArrayOrders([i \in 1..Len(keyed) |-> keyed[i][2]])

----------------------------------------------------------------------------
(* Transfer matcher *)

\* the two fields the wrong way round
scheduledFirst(dep) ==
    NewDate(Or(dep.scheduled_departure_utc, dep.estimated_departure_utc))

\* departures.js: new Date(dep.estimated_departure_utc || dep.scheduled_departure_utc)
departureTime(dep) ==
    NewDate(Or(dep.estimated_departure_utc, dep.scheduled_departure_utc))

ByDepartureTime(buses) == [i \in 1..Len(buses) |-> <<buses[i].departureTime, buses[i]>>]

\* findNextBus without the sort: the first suitable bus of the list
findNextBusUnsorted(busDepartures, trainArrival, routes, minTransferMins) ==
    LET minDepartureTime == AddMinutes(trainArrival, minTransferMins)
        mapped == [i \in 1..Len(busDepartures) |->
                     [departureTime |-> departureTime(busDepartures[i])]
                       @@ busDepartures[i]]
        Suitable(dep) == DateGE(dep.departureTime, minDepartureTime)
        suitableBuses == SelectSeq(mapped, Suitable)
    IN IF suitableBuses = <<>> THEN <<>> ELSE <<suitableBuses[1]>>

\* departures.js findNextBus; the result is <<>> for null, else <<bus>>
findNextBus(busDepartures, trainArrival, routes, minTransferMins) ==
    LET minDepartureTime == AddMinutes(trainArrival, minTransferMins)
        mapped == [i \in 1..Len(busDepartures) |->
                     [departureTime |-> departureTime(busDepartures[i])]
                       @@ busDepartures[i]]
        Suitable(dep) == DateGE(dep.departureTime, minDepartureTime)
        suitableBuses == StableSortByTime(ByDepartureTime(SelectSeq(mapped, Suitable)))
    IN IF suitableBuses = <<>> THEN <<>> ELSE <<suitableBuses[1]>>

ByTime(buses) == [i \in 1..Len(buses) |-> <<buses[i].time, buses[i]>>]

\* server.mjs findBus; routeData?.[d.route_id] is the record's route (the
\* model's records carry their route entry), the route key the map step
\* writes is kept as route_label, and the result is <<>> for undefined,
\* else <<bus>>
findBus(deps, routes, trainArr, routeData) ==
    LET minTime == AddMinutes(trainArr, MIN_TRANSFER)
        OfRoutes(d) == \E r \in routes : d.route.defined /\ d.route.route_number = r
        Timed(d) == [time |-> NewDate(Or(d.estimated_departure_utc,
                                         d.scheduled_departure_utc)),
                     route_label |-> d.route.route_number] @@ d
        kept == SelectSeq(deps.departures, OfRoutes)
        mapped == [i \in 1..Len(kept) |-> Timed(kept[i])]
        InTime(d) == DateGE(d.time, minTime)
        filtered == StableSortByTime(ByTime(SelectSeq(mapped, InTime)))
    IN IF filtered = <<>> THEN <<>> ELSE <<filtered[1]>>

----------------------------------------------------------------------------
(* Feeds: what the five upstream fetches resolve to.                      *)
(*   status "ok"      a payload with a departures list                    *)
(*   status "failed"  the fetch rejects or the response is not ok         *)
(*   status "nolist"  a payload without a departures list                 *)
(* A bus departure carries the entry data.routes[dep.route_id] as route   *)
(* (defined = FALSE when the lookup gives undefined; "" is a missing      *)
(* name).                                                                  *)

FeedNames == {"trains", "mw733", "syndal703", "syndal737", "gw"}
BusFeedNames == FeedNames \ {"trains"}

\* fetchPTV throws on a response that is not ok; a missing departures list
\* makes data.departures.filter a TypeError
getBusDeparturesThrows(feed) == feed.status # "ok"

\* departures.js getBusDepartures: keeps the departures whose route entry
\* exists and matches a wanted number by route_number or route_short_name
getBusDepartures(feed, routeNumbers) ==
    LET Wanted(dep) ==
            /\ dep.route.defined
            /\ \E num \in routeNumbers :
                  dep.route.route_number = num \/ dep.route.route_short_name = num
    IN [feed EXCEPT !.departures = SelectSeq(feed.departures, Wanted)]

\* route_number || fallback
RouteNumberOr(dep, fallback) ==
    IF dep.route.defined /\ dep.route.route_number # ""
    THEN dep.route.route_number ELSE fallback

WithRouteNumber(departures, fallback) ==
    [i \in 1..Len(departures) |->
        [routeNumber |-> RouteNumberOr(departures[i], fallback)] @@ departures[i]]

----------------------------------------------------------------------------
(* departures.js handler, after the fetches *)

\* new Date(dep.estimated_departure_utc || dep.scheduled_departure_utc)
arrivalTime(dep) ==
    NewDate(Or(dep.estimated_departure_utc, dep.scheduled_departure_utc))

ByArrivalTime(trains) ==
    [i \in 1..Len(trains) |-> <<trains[i].arrivalTime, trains[i]>>]

\* the outbound trains before the sort: direction filter, then arrivalTime
outboundUnsorted(trainFeed) ==
    LET Outbound(dep) == dep.direction_id = GLEN_WAVERLEY_DIRECTION
        kept == SelectSeq(trainFeed.departures, Outbound)
    IN [i \in 1..Len(kept) |-> [arrivalTime |-> arrivalTime(kept[i])] @@ kept[i]]

\* every value outboundTrains may have after .sort((a, b) => a.arrivalTime - b.arrivalTime)
outboundTrains(trainFeed) == SortOutcomes(ByArrivalTime(outboundUnsorted(trainFeed)))

\* Glen Waverley given Syndal's offset
trainArrivalsOneOffset(nextTrain) ==
    [mountWaverley |-> nextTrain.arrivalTime,
     syndal |-> AddMinutes(nextTrain.arrivalTime, TRAIN_TRAVEL_FROM_MT_WAVERLEY("syndal")),
     glenWaverley |-> AddMinutes(nextTrain.arrivalTime,
                                 TRAIN_TRAVEL_FROM_MT_WAVERLEY("syndal"))]

trainArrivals(nextTrain) ==
    [mountWaverley |-> nextTrain.arrivalTime,
     syndal |-> AddMinutes(nextTrain.arrivalTime, TRAIN_TRAVEL_FROM_MT_WAVERLEY("syndal")),
     glenWaverley |-> AddMinutes(nextTrain.arrivalTime,
                                 TRAIN_TRAVEL_FROM_MT_WAVERLEY("glenWaverley"))]

\* the object pushed onto options (timestamp-dependent totalMinutes left out)
Itinerary(station, trainArrival, route, busTime, travelTime) ==
    [station |-> station,
     trainArrival |-> ToISOString(trainArrival),
     bus |-> [route |-> route, departure |-> ToISOString(busTime),
              travelTime |-> travelTime],
     arrivalAtMonash |-> ToISOString(AddMinutes(busTime, travelTime))]

\* Mount Waverley - 733
option733(fs, arrivals) ==
    LET mtWaverleyBuses == getBusDepartures(fs["mw733"], {"733"})
        mtWaverleyBusList == WithRouteNumber(mtWaverleyBuses.departures, "733")
        bus733 == findNextBus(mtWaverleyBusList, arrivals.mountWaverley, {"733"},
                              MIN_TRANSFER_TIME)
    IN IF bus733 = <<>> THEN <<>>
       ELSE <<Itinerary("Mount Waverley", arrivals.mountWaverley, "733",
                        bus733[1].departureTime, BUS_TRAVEL_TIMES("733"))>>

\* Syndal - 703 (from Blackburn Rd stop)
option703(fs, arrivals) ==
    LET syndal703Buses == getBusDepartures(fs["syndal703"], {"703"})
        syndal703List == WithRouteNumber(syndal703Buses.departures, "703")
        bus703 == findNextBus(syndal703List, arrivals.syndal, {"703"}, MIN_TRANSFER_TIME)
    IN IF bus703 = <<>> THEN <<>>
       ELSE <<Itinerary("Syndal", arrivals.syndal, "703",
                        bus703[1].departureTime, BUS_TRAVEL_TIMES("703"))>>

\* Syndal - 737 (from Coleman Pde stop)
option737Syndal(fs, arrivals) ==
    LET syndal737Buses == getBusDepartures(fs["syndal737"], {"737"})
        syndal737List == WithRouteNumber(syndal737Buses.departures, "737")
        bus737Syndal == findNextBus(syndal737List, arrivals.syndal, {"737"},
                                    MIN_TRANSFER_TIME)
    IN IF bus737Syndal = <<>> THEN <<>>
       ELSE <<Itinerary("Syndal", arrivals.syndal, "737",
                        bus737Syndal[1].departureTime, BUS_TRAVEL_TIMES("737"))>>

\* the Glen Waverley turn with one travel time for both routes
optionGlenWaverleyOneTime(fs, arrivals, routeNum) ==
    LET glenWaverleyBuses == getBusDepartures(fs["gw"], {"742", "737"})
        glenWaverleyBusList == WithRouteNumber(glenWaverleyBuses.departures, "unknown")
        OnRoute(b) == b.routeNumber = routeNum
        routeBuses == SelectSeq(glenWaverleyBusList, OnRoute)
        bus == findNextBus(routeBuses, arrivals.glenWaverley, {routeNum}, MIN_TRANSFER_TIME)
    IN IF bus = <<>> THEN <<>>
       ELSE <<Itinerary("Glen Waverley", arrivals.glenWaverley, routeNum,
                        bus[1].departureTime, BUS_TRAVEL_TIMES("737"))>>

\* Glen Waverley - one turn of the loop over '742', '737'
optionGlenWaverley(fs, arrivals, routeNum) ==
    LET glenWaverleyBuses == getBusDepartures(fs["gw"], {"742", "737"})
        glenWaverleyBusList == WithRouteNumber(glenWaverleyBuses.departures, "unknown")
        OnRoute(b) == b.routeNumber = routeNum
        routeBuses == SelectSeq(glenWaverleyBusList, OnRoute)
        bus == findNextBus(routeBuses, arrivals.glenWaverley, {routeNum}, MIN_TRANSFER_TIME)
        travelTime == IF routeNum = "742" THEN BUS_TRAVEL_TIMES("742")
                                          ELSE BUS_TRAVEL_TIMES("737")
    IN IF bus = <<>> THEN <<>>
       ELSE <<Itinerary("Glen Waverley", arrivals.glenWaverley, routeNum,
                        bus[1].departureTime, travelTime)>>

\* options in push order, before the sort
handlerOptions(fs, arrivals) ==
    option733(fs, arrivals) \o option703(fs, arrivals) \o option737Syndal(fs, arrivals)
      \o optionGlenWaverley(fs, arrivals, "742") \o optionGlenWaverley(fs, arrivals, "737")

\* new Date(a.arrivalAtMonash) of every option
ByArrivalAtMonash(opts) ==
    [i \in 1..Len(opts) |-> <<NewDate(opts[i].arrivalAtMonash), opts[i]>>]

Reverse(seq) == [i \in 1..Len(seq) |-> seq[Len(seq) + 1 - i]]

\* the sort left out
sortOptionsSkipped(opts) == opts

\* an ascending sort that turns equal elements round
sortOptionsUnstable(opts) == StableSortByTime(ByArrivalAtMonash(Reverse(opts)))

\* options.sort((a, b) => new Date(a.arrivalAtMonash) - new Date(b.arrivalAtMonash))
sortOptions(opts) == StableSortByTime(ByArrivalAtMonash(opts))

----------------------------------------------------------------------------
(* Responses: the status, the keys of the JSON body, and the values of    *)
(* the keys the claims read.  recommendation is <<>> for null and         *)
(* <<itinerary>> otherwise; nextTrain is <<>> when the key is absent and  *)
(* <<atMountWaverley, atSyndal, atGlenWaverley>> otherwise.               *)

Response(status, keys, error, nextTrain, recommendation, allOptions) ==
    [status |-> status, keys |-> keys, error |-> error, nextTrain |-> nextTrain,
     recommendation |-> recommendation, allOptions |-> allOptions]

NoResponse == Response(0, {}, "", <<>>, <<>>, <<>>)

\* res.status(200).end() for OPTIONS
PreflightResponse == Response(200, {}, "", <<>>, <<>>, <<>>)

CredentialsResponse ==
    Response(500, {"error", "message"}, "PTV API credentials not configured",
             <<>>, <<>>, <<>>)

\* the catch block of handler
handlerCatch ==
    Response(500, {"error", "message"}, "Failed to fetch departure data",
             <<>>, <<>>, <<>>)

noTrainAsEmptyResult ==
    Response(200, {"timestamp", "nextTrain", "recommendation", "allOptions"}, "",
             <<>>, <<>>, <<>>)

\* if (!nextTrain) return res.status(200).json({ error, timestamp })
handlerNoTrain ==
    Response(200, {"error", "timestamp"}, "No upcoming trains found", <<>>, <<>>, <<>>)

\* the final res.status(200).json({...})
okResponse(arrivals, sortedOptions) ==
    Response(200, {"timestamp", "nextTrain", "recommendation", "allOptions"}, "",
             <<ToISOString(arrivals.mountWaverley), ToISOString(arrivals.syndal),
               ToISOString(arrivals.glenWaverley)>>,
             IF sortedOptions = <<>> THEN <<>> ELSE <<sortedOptions[1]>>,
             sortedOptions)

\* Promise.all rejects as soon as one of the five fetches throws
handlerFetchThrows(fs) == \E f \in FeedNames : getBusDeparturesThrows(fs[f])

\* toISOString on an Invalid Date, in an itinerary or in nextTrain
handlerRenderThrows(arrivals, opts) ==
    \/ ToISOStringThrows(arrivals.mountWaverley)
    \/ ToISOStringThrows(arrivals.syndal)
    \/ ToISOStringThrows(arrivals.glenWaverley)
    \/ \E i \in 1..Len(opts) : ToISOStringThrows(opts[i].arrivalAtMonash)

\* the local options array when the handler ends (in push order until the
\* sort is reached); sorted is the value of outboundTrains
handlerLocalOptions(fs, sorted) ==
    IF handlerFetchThrows(fs) \/ sorted = <<>> THEN <<>>
    ELSE handlerOptions(fs, trainArrivals(sorted[1]))

\* departures.js handler from the await on
handlerResponse(fs, sorted) ==
    IF handlerFetchThrows(fs) THEN handlerCatch
    ELSE IF sorted = <<>> THEN handlerNoTrain
    ELSE LET arrivals == trainArrivals(sorted[1])
             opts == handlerOptions(fs, arrivals)
         IN IF handlerRenderThrows(arrivals, opts) THEN handlerCatch
            ELSE okResponse(arrivals, sortOptions(opts))

----------------------------------------------------------------------------
(* server.mjs handleAPI.  Its fetchPTV does not look at response.ok, so a  *)
(* payload without a departures list comes through and fails only where   *)
(* its departures are read.                                                *)

apiCatch == Response(500, {"error", "message"}, "Failed to fetch data", <<>>, <<>>, <<>>)

apiNoTrain == Response(200, {"error", "timestamp"}, "No upcoming trains", <<>>, <<>>, <<>>)

apiFetchThrows(fs) == \E f \in FeedNames : fs[f].status = "failed"

\* trains.departures.filter is a TypeError without the list
apiTrainsThrow(fs) == fs["trains"].status # "ok"

outbound(trainFeed) == SortOutcomes(ByArrivalTime(outboundUnsorted(trainFeed)))

apiTrainArrivals(nextTrain) ==
    [mountWaverley |-> nextTrain.arrivalTime,
     syndal |-> AddMinutes(nextTrain.arrivalTime, TRAIN_TRAVEL("syndal")),
     glenWaverley |-> AddMinutes(nextTrain.arrivalTime, TRAIN_TRAVEL("glenWaverley"))]

\* one  const b = findBus(...); if (b) options.push({...})  block
apiOption(feed, route, station, trainArr) ==
    LET b == findBus(feed, {route}, trainArr, feed)
    IN IF b = <<>> THEN <<>>
       ELSE <<Itinerary(station, trainArr, route, b[1].time,
                        BUS_TRAVEL_TIMES_local(route))>>

apiOptions(fs, arrivals) ==
    apiOption(fs["mw733"], "733", "Mount Waverley", arrivals.mountWaverley)
      \o apiOption(fs["syndal703"], "703", "Syndal", arrivals.syndal)
      \o apiOption(fs["syndal737"], "737", "Syndal", arrivals.syndal)
      \o apiOption(fs["gw"], "742", "Glen Waverley", arrivals.glenWaverley)
      \o apiOption(fs["gw"], "737", "Glen Waverley", arrivals.glenWaverley)

\* deps.departures.filter in findBus is a TypeError without the list
apiBusesThrow(fs) == \E f \in BusFeedNames : fs[f].status # "ok"

apiLocalOptions(fs, sorted) ==
    IF apiFetchThrows(fs) \/ apiTrainsThrow(fs) \/ sorted = <<>> \/ apiBusesThrow(fs)
    THEN <<>>
    ELSE apiOptions(fs, apiTrainArrivals(sorted[1]))

\* server.mjs handleAPI from the await on
apiResponse(fs, sorted) ==
    IF apiFetchThrows(fs) \/ apiTrainsThrow(fs) THEN apiCatch
    ELSE IF sorted = <<>> THEN apiNoTrain
    ELSE IF apiBusesThrow(fs) THEN apiCatch
    ELSE LET arrivals == apiTrainArrivals(sorted[1])
             opts == apiOptions(fs, arrivals)
         IN IF handlerRenderThrows(arrivals, opts) THEN apiCatch
            ELSE okResponse(arrivals, sortOptions(opts))

----------------------------------------------------------------------------
(* What the upstream provider may send *)

Route(number, shortName) ==
    [defined |-> TRUE, route_number |-> number, route_short_name |-> shortName]

\* data.routes has no entry for the departure's route_id
NoRoute == [defined |-> FALSE, route_number |-> "", route_short_name |-> ""]

Train(direction, scheduled, estimated) ==
    [direction_id |-> direction, scheduled_departure_utc |-> scheduled,
     estimated_departure_utc |-> estimated]

Bus(route, scheduled, estimated) ==
    [route |-> route, scheduled_departure_utc |-> scheduled,
     estimated_departure_utc |-> estimated]

\* the train records of a request: on time, running late, the city-bound
\* direction, and two records without a usable timestamp
TrainRecords ==
    {Train(GLEN_WAVERLEY_DIRECTION, Tick, NULL),
     Train(GLEN_WAVERLEY_DIRECTION, Tick, 2 * Tick),
     Train(1, Tick, NULL),
     Train(GLEN_WAVERLEY_DIRECTION, UNDEFINED, NULL),
     Train(GLEN_WAVERLEY_DIRECTION, NULL, NULL)}

\* first tick of the departures listed at a feed's stop: the stops further
\* down the line list later departures
FirstTick(f) ==
    CASE f = "mw733" -> 2
      [] f \in {"syndal703", "syndal737"} -> 3
      [] f = "gw" -> 4

BusTimes(f) == {(FirstTick(f) + k) * Tick : k \in 0..(MaxTick - 1)}

LastBusTime(f) == (FirstTick(f) + MaxTick - 1) * Tick

FeedRoutes(f) ==
    CASE f = "mw733" -> {"733"}
      [] f = "syndal703" -> {"703"}
      [] f = "syndal737" -> {"737"}
      [] f = "gw" -> {"742", "737"}

FirstRoute(f) == IF f = "gw" THEN "742" ELSE CHOOSE r \in FeedRoutes(f) : TRUE

\* the bus records of a feed: scheduled departures of its own routes, one
\* running late with a live estimate, one without a usable timestamp, one of
\* another route, one with no route entry, and one whose route entry names
\* the route by route_short_name only
BusRecords(f) ==
    {Bus(Route(r, ""), t, NULL) : r \in FeedRoutes(f), t \in BusTimes(f)}
      \cup {Bus(Route(FirstRoute(f), ""), FirstTick(f) * Tick, LastBusTime(f) + Tick),
            Bus(Route(FirstRoute(f), ""), UNDEFINED, NULL),
            Bus(Route("900", ""), LastBusTime(f), NULL),
            Bus(NoRoute, LastBusTime(f), NULL),
            Bus(Route("", FirstRoute(f)), LastBusTime(f), NULL)}

EmptyFeed == [status |-> "ok", departures |-> <<>>]

EventCount ==
    LET n(f) == IF feeds[f].status = "ok" THEN Len(feeds[f].departures) ELSE 1
    IN n("trains") + n("mw733") + n("syndal703") + n("syndal737") + n("gw")

----------------------------------------------------------------------------
(* The leaf functions called on their own *)

CoreTimes == {k * Tick : k \in 1..(MaxTick + 1)}

RawScheduled == {UNDEFINED, NULL} \cup CoreTimes
RawEstimated == {UNDEFINED, NULL, BAD} \cup CoreTimes

\* every shape of the two timestamp fields
RawDepartures ==
    {Bus(Route("733", ""), sch, est) : sch \in RawScheduled, est \in RawEstimated}

\* the records of the lists handed to the matcher: scheduled only, a live
\* estimate before or after the schedule, no usable timestamp, an
\* unparseable estimate
CoreBusRecords ==
    {Bus(Route("733", ""), sch, NULL) : sch \in RawScheduled}
      \cup {Bus(Route("733", ""), 2 * Tick, est) : est \in CoreTimes \cup {BAD}}

CoreBusLists == UNION {[1..n -> CoreBusRecords] : n \in 0..MaxLen}

\* findBus also reads the route entry
CoreRoutedLists ==
    UNION {[1..n -> CoreBusRecords \cup {Bus(Route("900", ""), 3 * Tick, NULL)}]
             : n \in 0..(MaxLen - 1)}

Buffers == {b * MIN_TRANSFER_TIME : b \in 0..MaxBuffer}

Call(op, dep, deps, trainArrival, minTransferMins, result) ==
    [op |-> op, dep |-> dep, deps |-> deps, trainArrival |-> trainArrival,
     minTransferMins |-> minTransferMins, result |-> result]

NoCall == Call("none", Bus(NoRoute, NULL, NULL), <<>>, 0, 0, <<>>)

----------------------------------------------------------------------------
(* The request *)

Init ==
    /\ feeds = [f \in FeedNames |-> EmptyFeed]
    /\ pc = "start"
    /\ impl = "none"
    /\ req = [method |-> "GET", credentials |-> TRUE]
    /\ options = <<>>
    /\ response = NoResponse
    /\ call = NoCall

\* departures.js handler up to the await: CORS headers, OPTIONS, credentials
HandlerBegin ==
    /\ pc = "start"
    /\ \E method \in {"GET", "OPTIONS"}, credentials \in BOOLEAN :
          /\ req' = [method |-> method, credentials |-> credentials]
          /\ impl' = "handler"
          /\ IF method = "OPTIONS"
             THEN pc' = "done" /\ response' = PreflightResponse
             ELSE IF ~credentials
             THEN pc' = "done" /\ response' = CredentialsResponse
             ELSE pc' = "fetching" /\ response' = response
    /\ UNCHANGED <<feeds, options, call>>

\* server.mjs handleAPI up to the await
HandleAPIBegin ==
    /\ pc = "start"
    /\ impl' = "handleAPI"
    /\ pc' = "fetching"
    /\ UNCHANGED <<feeds, req, options, response, call>>

\* the provider adds a departure to the train payload
DeliverTrain ==
    /\ pc = "fetching"
    /\ EventCount < MaxRecords
    /\ feeds["trains"].status = "ok"
    /\ \E rec \in TrainRecords :
          feeds' = [feeds EXCEPT !["trains"].departures = Append(@, rec)]
    /\ UNCHANGED <<pc, impl, req, options, response, call>>

\* the provider adds a departure to a bus payload
DeliverBus ==
    /\ pc = "fetching"
    /\ EventCount < MaxRecords
    /\ \E f \in BusFeedNames :
          /\ feeds[f].status = "ok"
          /\ \E rec \in BusRecords(f) :
                feeds' = [feeds EXCEPT ![f].departures = Append(@, rec)]
    /\ UNCHANGED <<pc, impl, req, options, response, call>>

\* a fetch rejects ("failed"), or resolves to a payload without a departures
\* list ("nolist")
FeedLost ==
    /\ pc = "fetching"
    /\ EventCount < MaxRecords
    /\ \E f \in FeedNames, status \in {"failed", "nolist"} :
          /\ feeds[f] = EmptyFeed
          /\ feeds' = [feeds EXCEPT ![f].status = status]
    /\ UNCHANGED <<pc, impl, req, options, response, call>>

\* departures.js handler from the await to the response
HandlerRespond ==
    /\ pc = "fetching"
    /\ impl = "handler"
    /\ \E sorted \in outboundTrains(feeds["trains"]) :
          /\ options' = handlerLocalOptions(feeds, sorted)
          /\ response' = handlerResponse(feeds, sorted)
    /\ pc' = "done"
    /\ UNCHANGED <<feeds, impl, req, call>>

\* server.mjs handleAPI from the await to the response
HandleAPIRespond ==
    /\ pc = "fetching"
    /\ impl = "handleAPI"
    /\ \E sorted \in outbound(feeds["trains"]) :
          /\ options' = apiLocalOptions(feeds, sorted)
          /\ response' = apiResponse(feeds, sorted)
    /\ pc' = "done"
    /\ UNCHANGED <<feeds, impl, req, call>>

Next ==
    \/ HandlerBegin
    \/ HandleAPIBegin
    \/ DeliverTrain
    \/ DeliverBus
    \/ FeedLost
    \/ HandlerRespond
    \/ HandleAPIRespond

Spec == Init /\ [][Next]_vars

----------------------------------------------------------------------------
(* The leaf functions as operations of their own *)

InitCore ==
    /\ feeds = [f \in FeedNames |-> EmptyFeed]
    /\ pc = "core"
    /\ impl = "none"
    /\ req = [method |-> "GET", credentials |-> TRUE]
    /\ options = <<>>
    /\ response = NoResponse
    /\ call = NoCall

\* the normalisation of a bus record inside findNextBus
CallDepartureTime ==
    /\ call.op = "none"
    /\ \E dep \in RawDepartures :
          call' = Call("departureTime", dep, <<>>, 0, 0, <<departureTime(dep)>>)
    /\ UNCHANGED <<feeds, pc, impl, req, options, response>>

\* the normalisation of a train record inside handler
CallArrivalTime ==
    /\ call.op = "none"
    /\ \E dep \in RawDepartures :
          call' = Call("arrivalTime", dep, <<>>, 0, 0, <<arrivalTime(dep)>>)
    /\ UNCHANGED <<feeds, pc, impl, req, options, response>>

CallFindNextBus ==
    /\ call.op = "none"
    /\ \E deps \in CoreBusLists, trainArrival \in CoreTimes, mins \in Buffers :
          call' = Call("findNextBus", NoCall.dep, deps, trainArrival, mins,
                       findNextBus(deps, trainArrival, {"733"}, mins))
    /\ UNCHANGED <<feeds, pc, impl, req, options, response>>

CallFindBus ==
    /\ call.op = "none"
    /\ \E deps \in CoreRoutedLists, trainArr \in CoreTimes :
          LET feed == [status |-> "ok", departures |-> deps]
          IN call' = Call("findBus", NoCall.dep, deps, trainArr, MIN_TRANSFER,
                          findBus(feed, {"733"}, trainArr, feed))
    /\ UNCHANGED <<feeds, pc, impl, req, options, response>>

NextCore ==
    \/ CallDepartureTime
    \/ CallArrivalTime
    \/ CallFindNextBus
    \/ CallFindBus

SpecCore == InitCore /\ [][NextCore]_vars

----------------------------------------------------------------------------
(* Claims about the leaf functions (under SpecCore) *)

IsMatcherCall == call.op \in {"findNextBus", "findBus"}

\* arrival instant + buffer of the recorded call
CallThreshold == call.trainArrival + call.minTransferMins * MsPerMinute

\* the events of the recorded list that the matcher may return: those of the
\* route asked for, with a resolved instant at or after the threshold
CallFeasible ==
    {i \in 1..Len(call.deps) :
        /\ call.deps[i].route.route_number = "733"
        /\ IsInstant(departureTime(call.deps[i]))
        /\ departureTime(call.deps[i]) >= CallThreshold}

CallResultTime ==
    IF call.op = "findNextBus" THEN call.result[1].departureTime
    ELSE call.result[1].time

\* C1: the transfer matcher returns no match exactly when no event of the
\* list departs at or after arrival + buffer; otherwise it returns an event
\* of the list whose resolved instant is at or after arrival + buffer (an
\* event exactly at arrival + buffer is accepted, one before it never
\* returned) and is the minimum among the events at or after it.
C1_MatcherReturnsEarliestFeasible ==
    IsMatcherCall =>
        /\ (CallFeasible = {}) <=> (call.result = <<>>)
        /\ CallFeasible # {} =>
              /\ CallResultTime >= CallThreshold
              /\ \A i \in CallFeasible : CallResultTime <= departureTime(call.deps[i])
              /\ \E i \in CallFeasible :
                    /\ departureTime(call.deps[i]) = CallResultTime
                    /\ call.deps[i].scheduled_departure_utc
                         = call.result[1].scheduled_departure_utc
                    /\ call.deps[i].estimated_departure_utc
                         = call.result[1].estimated_departure_utc

\* a call whose answer departs exactly at arrival + buffer, from a list that
\* holds an earlier event and, ahead of the answer, a later one
C1_Witness ==
    /\ call.op = "findNextBus"
    /\ call.minTransferMins > 0
    /\ call.result # <<>>
    /\ call.result[1].departureTime = CallThreshold
    /\ \E i \in 1..Len(call.deps) :
          IsInstant(departureTime(call.deps[i]))
            /\ departureTime(call.deps[i]) < CallThreshold
    /\ departureTime(call.deps[1]) > CallThreshold

IsNormalizerCall == call.op \in {"departureTime", "arrivalTime"}

\* C7: the resolved instant of a raw record is its estimated instant when an
\* estimated time is present, and its scheduled instant when only a
\* scheduled time is present, for bus records and train records alike.
C7_ResolvedPrefersEstimate ==
    IsNormalizerCall =>
        /\ IsInstant(call.dep.estimated_departure_utc)
              => call.result = <<call.dep.estimated_departure_utc>>
        /\ (call.dep.estimated_departure_utc \in {NULL, UNDEFINED}
              /\ IsInstant(call.dep.scheduled_departure_utc))
              => call.result = <<call.dep.scheduled_departure_utc>>

\* a bus record with both times, the estimate later than the schedule
C7_Witness ==
    /\ call.op = "departureTime"
    /\ IsInstant(call.dep.scheduled_departure_utc)
    /\ IsInstant(call.dep.estimated_departure_utc)
    /\ call.dep.estimated_departure_utc > call.dep.scheduled_departure_utc
    /\ call.result = <<call.dep.estimated_departure_utc>>

----------------------------------------------------------------------------
(* Claims about a request (under Spec) *)

\* the five station/route pairs in the order the itineraries are built
Pairs ==
    <<[station |-> "Mount Waverley", route |-> "733", feed |-> "mw733", at |-> 1],
      [station |-> "Syndal", route |-> "703", feed |-> "syndal703", at |-> 2],
      [station |-> "Syndal", route |-> "737", feed |-> "syndal737", at |-> 2],
      [station |-> "Glen Waverley", route |-> "742", feed |-> "gw", at |-> 3],
      [station |-> "Glen Waverley", route |-> "737", feed |-> "gw", at |-> 3]>>

PairOf(o) ==
    CHOOSE k \in 1..Len(Pairs) :
        Pairs[k].station = o.station /\ Pairs[k].route = o.bus.route

TravelMinutes(route) ==
    CASE route = "733" -> 17 [] route = "703" -> 13
      [] route = "737" -> 15 [] route = "742" -> 12

\* the request went past the method and credentials checks and was answered
Answered == pc = "done" /\ req.method = "GET" /\ req.credentials

\* the answer is the normal result: nextTrain, recommendation, allOptions
Computed == Answered /\ response.status = 200 /\ "allOptions" \in response.keys

AllFeedsOk == \A f \in FeedNames : feeds[f].status = "ok"

OutboundRecords ==
    {i \in 1..Len(feeds["trains"].departures) :
        feeds["trains"].departures[i].direction_id = 6}

Count(seq, x) == Cardinality({i \in 1..Len(seq) : seq[i] = x})

IsPermutationOf(a, b) ==
    /\ Len(a) = Len(b)
    /\ \A i \in 1..Len(a) : Count(a, a[i]) = Count(b, a[i])

\* C4: allOptions holds exactly the itineraries that were built, in ascending
\* order of arrivalAtMonash; when there is one, the recommendation is the
\* head of allOptions and no itinerary arrives before it.
C4_RankedAscendingHeadIsBest ==
    Computed =>
        /\ IsPermutationOf(response.allOptions, options)
        /\ \A i, j \in 1..Len(response.allOptions) :
              i < j => response.allOptions[i].arrivalAtMonash
                         <= response.allOptions[j].arrivalAtMonash
        /\ options # <<>> =>
              /\ response.recommendation = <<response.allOptions[1]>>
              /\ \A i \in 1..Len(options) :
                    response.recommendation[1].arrivalAtMonash
                      <= options[i].arrivalAtMonash

\* two itineraries that were built in the other order than they are ranked
C4_Witness ==
    /\ Computed
    /\ Len(options) >= 2
    /\ options[1].arrivalAtMonash > options[2].arrivalAtMonash
    /\ response.recommendation = <<options[2]>>

\* C9: two itineraries with the same arrivalAtMonash stand in allOptions in
\* the order they were built (Mount Waverley/733, Syndal/703, Syndal/737,
\* Glen Waverley/742, Glen Waverley/737), so the recommendation is the first
\* built of the earliest ones.
C9_TiesKeepConstructionOrder ==
    Computed =>
        \A i, j \in 1..Len(response.allOptions) :
            (i < j /\ response.allOptions[i].arrivalAtMonash
                        = response.allOptions[j].arrivalAtMonash)
              => PairOf(response.allOptions[i]) < PairOf(response.allOptions[j])

\* the two earliest itineraries arrive at the same instant
C9_Witness ==
    /\ Computed
    /\ Len(response.allOptions) >= 2
    /\ response.allOptions[1].arrivalAtMonash = response.allOptions[2].arrivalAtMonash
    /\ response.recommendation = <<options[1]>>

\* C8: with T the resolved instant of the chosen train, nextTrain reports T,
\* T + 3 minutes and T + 6 minutes for Mount Waverley, Syndal and Glen
\* Waverley (so they never decrease along the line), and these are the
\* arrivals the itineraries were matched against.
C8_ProjectedArrivals ==
    Computed =>
        /\ \E i \in OutboundRecords :
              response.nextTrain[1] = arrivalTime(feeds["trains"].departures[i])
        /\ response.nextTrain[2] = response.nextTrain[1] + 3 * MsPerMinute
        /\ response.nextTrain[3] = response.nextTrain[1] + 6 * MsPerMinute
        /\ response.nextTrain[1] <= response.nextTrain[2]
        /\ response.nextTrain[2] <= response.nextTrain[3]
        /\ \A k \in 1..Len(response.allOptions) :
              LET o == response.allOptions[k]
              IN /\ o.trainArrival = response.nextTrain[Pairs[PairOf(o)].at]
                 /\ o.bus.departure >= o.trainArrival + 3 * MsPerMinute

\* a late-running train and a Glen Waverley bus matched against its arrival
C8_Witness ==
    /\ Computed
    /\ response.nextTrain = <<2 * Tick, 2 * Tick + 3 * MsPerMinute,
                              2 * Tick + 6 * MsPerMinute>>
    /\ \E k \in 1..Len(response.allOptions) :
          response.allOptions[k].station = "Glen Waverley"

\* the bus belongs to the route: its route entry names it
OfRoute(dep, route) ==
    dep.route.defined
      /\ (dep.route.route_number = route \/ dep.route.route_short_name = route)

\* C10: every itinerary of allOptions is one of the five pairs, carries the
\* fixed travel time of its own route (733 -> 17, 703 -> 13, 737 -> 15,
\* 742 -> 12), arrives at its bus departure + that many minutes, reports the
\* projected arrival of its own station, and its bus is a departure of its
\* route in the feed of its pair.
C10_ItineraryAssembly ==
    Computed =>
        \A k \in 1..Len(response.allOptions) :
            LET o == response.allOptions[k]
            IN /\ \E n \in 1..Len(Pairs) :
                     Pairs[n].station = o.station /\ Pairs[n].route = o.bus.route
               /\ o.bus.travelTime = TravelMinutes(o.bus.route)
               /\ o.arrivalAtMonash = o.bus.departure + o.bus.travelTime * MsPerMinute
               /\ o.trainArrival = response.nextTrain[Pairs[PairOf(o)].at]
               /\ \E i \in 1..Len(feeds[Pairs[PairOf(o)].feed].departures) :
                     LET dep == feeds[Pairs[PairOf(o)].feed].departures[i]
                     IN OfRoute(dep, o.bus.route)
                          /\ departureTime(dep) = o.bus.departure

\* both Glen Waverley itineraries, each with the travel time of its route
C10_Witness ==
    /\ Computed
    /\ \E k \in 1..Len(response.allOptions) :
          response.allOptions[k].bus.route = "742"
            /\ response.allOptions[k].bus.travelTime = 12
    /\ \E k \in 1..Len(response.allOptions) :
          response.allOptions[k].bus.route = "737"
            /\ response.allOptions[k].station = "Glen Waverley"
            /\ response.allOptions[k].bus.travelTime = 15

----------------------------------------------------------------------------
(* No upcoming train *)

\* every feed was fetched and the train feed has no record of direction 6
NoTrainCase == Answered /\ AllFeedsOk /\ OutboundRecords = {}

\* a train of direction 6 is there, and no itinerary was built
TrainButNoBusCase == Answered /\ AllFeedsOk /\ OutboundRecords # {} /\ options = <<>>

ErrorOnlyBody == {"error", "timestamp"}

\* C5 as stated: with no record of direction 6 the result has a null
\* recommendation and an empty option list, and differs from the result of
\* a train without any feasible bus.
C5_NoTrainIsEmptyResult ==
    /\ NoTrainCase =>
          /\ "recommendation" \in response.keys /\ response.recommendation = <<>>
          /\ "allOptions" \in response.keys /\ response.allOptions = <<>>
          /\ "error" \in response.keys
    /\ TrainButNoBusCase => "error" \notin response.keys \/ response.status # 200

\* C5 as amended: with no record of direction 6 the answer is HTTP 200 with
\* an error message and a timestamp and nothing else (no recommendation, no
\* allOptions, no nextTrain key), and the answer to a train without any
\* feasible bus never has that body.
C5_NoTrainIsErrorBody ==
    /\ NoTrainCase =>
          /\ response.status = 200
          /\ response.keys = ErrorOnlyBody
          /\ response.error # ""
    /\ TrainButNoBusCase =>
          (response.keys # ErrorOnlyBody /\ (response.status = 200 =>
              /\ response.keys = {"timestamp", "nextTrain", "recommendation", "allOptions"}
              /\ response.recommendation = <<>>
              /\ response.allOptions = <<>>))

\* only a city-bound train in the feed, and a bus waiting at Mount Waverley
C5_Witness ==
    /\ NoTrainCase
    /\ Len(feeds["trains"].departures) > 0
    /\ Len(feeds["mw733"].departures) > 0
    /\ response.keys = ErrorOnlyBody

----------------------------------------------------------------------------
(* Lost bus feeds, records without a timestamp, feasible pairs *)

\* the next-state value of the response for the feeds fs
ResponsesFor(fs) ==
    IF impl = "handler"
    THEN {handlerResponse(fs, sorted) : sorted \in outboundTrains(fs["trains"])}
    ELSE {apiResponse(fs, sorted) : sorted \in outbound(fs["trains"])}

Usable(dep) ==
    IsInstant(dep.scheduled_departure_utc) \/ IsInstant(dep.estimated_departure_utc)

\* the train feed is there, has a train of direction 6, and all its records
\* have a usable timestamp
TrainFeedSound ==
    /\ feeds["trains"].status = "ok"
    /\ OutboundRecords # {}
    /\ \A i \in 1..Len(feeds["trains"].departures) : Usable(feeds["trains"].departures[i])

\* the bus feeds that are absent or empty
LostOrEmpty == {f \in BusFeedNames : feeds[f].status # "ok" \/ feeds[f].departures = <<>>}

\* the feeds with every bus feed but f made empty
Only(f) == [g \in FeedNames |-> IF g \in {"trains", f} THEN feeds[g] ELSE EmptyFeed]

OptionSet(r) == {r.allOptions[i] : i \in 1..Len(r.allOptions)}

\* C2: whatever bus feeds are absent (fetch failed, payload without a
\* departures list) or empty, the request is answered with a normal result
\* that holds the itineraries of the other bus feeds and none of the lost ones.
C2_LostBusFeedsTolerated ==
    (Answered /\ TrainFeedSound) =>
        /\ response.status = 200
        /\ "allOptions" \in response.keys
        /\ \A k \in 1..Len(response.allOptions) :
              Pairs[PairOf(response.allOptions[k])].feed \notin LostOrEmpty
        /\ \A f \in BusFeedNames \ LostOrEmpty :
              \A r \in ResponsesFor(Only(f)) : OptionSet(r) \subseteq OptionSet(response)

\* the feeds without the records that have no usable timestamp
Cleaned ==
    [f \in FeedNames |->
        [feeds[f] EXCEPT !.departures = SelectSeq(feeds[f].departures, Usable)]]

\* C3: a record with neither a scheduled nor an estimated instant is dropped:
\* the answer is the answer to the same feeds without that record.
C3_MalformedRecordsDropped ==
    (Answered /\ AllFeedsOk) => response \in ResponsesFor(Cleaned)

\* a bus of the pair's route in the pair's feed that leaves at or after the
\* projected arrival at the pair's station plus three minutes
FeasiblePair(n, arrivals) ==
    \E i \in 1..Len(feeds[Pairs[n].feed].departures) :
        LET dep == feeds[Pairs[n].feed].departures[i]
        IN /\ OfRoute(dep, Pairs[n].route)
           /\ Usable(dep)
           /\ departureTime(dep) >= arrivals[Pairs[n].at] + 3 * MsPerMinute

ItinerariesOf(n) ==
    {k \in 1..Len(response.allOptions) :
        /\ response.allOptions[k].station = Pairs[n].station
        /\ response.allOptions[k].bus.route = Pairs[n].route}

\* C6: when a train is there, allOptions has exactly one itinerary for each
\* pair with a feasible bus and none for the others; an infeasible pair
\* raises no error, and with no feasible pair the answer is still the normal
\* one, with a null recommendation and no options.
C6_ExactlyFeasiblePairs ==
    (Answered /\ AllFeedsOk /\ OutboundRecords # {}) =>
        /\ response.status = 200
        /\ "allOptions" \in response.keys
        /\ \A n \in 1..Len(Pairs) :
              Cardinality(ItinerariesOf(n))
                = IF FeasiblePair(n, response.nextTrain) THEN 1 ELSE 0
        /\ response.allOptions = <<>> => response.recommendation = <<>>

\* the feeds with the train records of another direction taken out
OutboundOnly ==
    LET Outbound(dep) == dep.direction_id = 6
    IN [feeds EXCEPT !["trains"].departures = SelectSeq(@, Outbound)]

\* the resolved instants of the direction-6 records of the train feed
OutboundInstants ==
    {arrivalTime(feeds["trains"].departures[i]) : i \in OutboundRecords}

\* C11: when the train feed has a record of direction 6, the train that the
\* three station arrivals are projected from is a direction-6 record whose
\* resolved instant is the least among the direction-6 records, and the
\* records of another direction change nothing in the answer: it is an
\* answer to the same feeds without them.
C11_NextTrainIsEarliestOutbound ==
    (Answered /\ AllFeedsOk /\ OutboundRecords # {}) =>
        /\ response.status = 200
        /\ "nextTrain" \in response.keys
        /\ response.nextTrain[1] \in OutboundInstants
        /\ \A t \in OutboundInstants : IsInstant(t) => response.nextTrain[1] <= t
        /\ response \in ResponsesFor(OutboundOnly)

====
